---------------------------- MODULE Spec2Model ----------------------------
(***************************************************************************)
(* Box losses of tex/models/structure/losses.py (iou_loss,                 *)
(* distance_iou_loss, complete_iou_loss, tile_iou_loss), the batch reducer *)
(* batch_mean and the top-level structure_loss.                            *)
(*                                                                         *)
(* Tensor values are modelled in fixed point: a number x is the integer    *)
(* x * Scale, and the one non-finite value the box universe produces, NaN  *)
(* (0/0, the mean of an empty tensor), is a value of its own that every    *)
(* arithmetic operation propagates, as IEEE arithmetic does.               *)
(***************************************************************************)
EXTENDS Integers, Sequences, FiniteSets, TLC

\* ------------------------------------------------------------------ bounds
\* Longest box sequence of one sample.
MaxLen == 2
\* Largest number of samples in a batch.
MaxBatch == 2

\* ------------------------------------------------------------- arithmetic
\* Fixed-point resolution of a tensor element.
Scale == 1000

Num(x) == [nan |-> FALSE, v |-> x]
NaN == [nan |-> TRUE, v |-> 0]
One == Num(Scale)
Zero == Num(0)

Add(a, b) == IF a.nan \/ b.nan THEN NaN ELSE Num(a.v + b.v)
Sub(a, b) == IF a.nan \/ b.nan THEN NaN ELSE Num(a.v - b.v)
Mul(a, b) == IF a.nan \/ b.nan THEN NaN ELSE Num((a.v * b.v) \div Scale)
\* 0/0 is NaN.  Over the box universe below a zero divisor only ever meets a
\* zero dividend, so +-inf (x/0, x # 0) is not a value of the model.
Div(a, b) ==
    IF a.nan \/ b.nan THEN NaN
    ELSE IF b.v = 0 THEN NaN
    ELSE Num((a.v * Scale) \div b.v)
Abs(a) == IF a.nan THEN NaN ELSE Num(IF a.v < 0 THEN -a.v ELSE a.v)

Min2(x, y) == IF x <= y THEN x ELSE y
Max2(x, y) == IF x >= y THEN x ELSE y

RECURSIVE ISqrtBetween(_, _, _)
ISqrtBetween(n, lo, hi) ==
    IF lo >= hi THEN lo
    ELSE LET mid == (lo + hi + 1) \div 2
         IN  IF mid * mid <= n THEN ISqrtBetween(n, mid, hi)
             ELSE ISqrtBetween(n, lo, mid - 1)
\* floor(sqrt(n)) for n >= 0
ISqrt(n) == ISqrtBetween(n, 0, Min2(n, 46340))

RECURSIVE SumSeq(_)
SumSeq(s) == IF Len(s) = 0 THEN Zero ELSE Add(Head(s), SumSeq(Tail(s)))

\* torch.mean of a 1-d tensor: NaN on the empty tensor.
Mean(s) ==
    IF Len(s) = 0 THEN NaN
    ELSE LET t == SumSeq(s) IN IF t.nan THEN NaN ELSE Num(t.v \div Len(s))

\* torch.arctan on the aspect ratios of the box universe (radians * Scale).
Arctan(a) ==
    IF a.nan THEN NaN
    ELSE CASE a.v = 0 -> Num(0)
           [] a.v = 333 -> Num(322)
           [] a.v = 500 -> Num(464)
           [] a.v = 666 -> Num(588)
           [] a.v = 1000 -> Num(785)
           [] a.v = 1500 -> Num(983)
           [] a.v = 2000 -> Num(1107)
           [] a.v = 3000 -> Num(1249)

\* 4 / (pi * pi)
FourOverPiSq == 405

\* --------------------------------------------------------------- geometry
\* tex.core.geometry, by its contract: a box is <<x1, y1, x2, y2>>.
width(b) == b[3] - b[1]
height(b) == b[4] - b[2]
box_area(b) == width(b) * height(b)
intersection(a, b) ==
    Max2(0, Min2(a[3], b[3]) - Max2(a[1], b[1]))
      * Max2(0, Min2(a[4], b[4]) - Max2(a[2], b[2]))

\* The MBR of an empty sequence does not exist.
NoBox == <<>>

area(b) == IF b = NoBox THEN NaN ELSE Num(box_area(b) * Scale)

\* intersection / union; 0 when the boxes do not overlap or are degenerate
iou(a, b) ==
    IF a = NoBox \/ b = NoBox THEN NaN
    ELSE LET i == intersection(a, b)
             u == box_area(a) + box_area(b) - i
         IN  IF u = 0 THEN Zero ELSE Num((i * Scale) \div u)

\* minimum bounding rectangle of a pair
mbr(a, b) ==
    <<Min2(a[1], b[1]), Min2(a[2], b[2]), Max2(a[3], b[3]), Max2(a[4], b[4])>>

RECURSIVE mbr_all(_)
\* minimum bounding rectangle of a whole sequence
mbr_all(s) ==
    IF Len(s) = 0 THEN NoBox
    ELSE IF Len(s) = 1 THEN s[1]
    ELSE mbr(Head(s), mbr_all(Tail(s)))

\* Euclidean length of the diagonal
diag(b) == Num(ISqrt((width(b) * width(b) + height(b) * height(b)) * Scale * Scale))

\* Euclidean distance between the centres
center_distance(a, b) ==
    LET dx == (a[1] + a[3]) - (b[1] + b[3])
        dy == (a[2] + a[4]) - (b[2] + b[4])
    IN  Num(ISqrt((dx * dx + dy * dy) * Scale * Scale) \div 2)

\* width / height
aspect_ratio(b) == Div(Num(width(b) * Scale), Num(height(b) * Scale))

RECURSIVE sum_si_int(_)
sum_si_int(s) ==
    IF Len(s) <= 1 THEN 0
    ELSE LET h == Head(s)
             t == Tail(s)
             RECURSIVE against(_)
             against(r) == IF Len(r) = 0 THEN 0
                        ELSE intersection(h, Head(r)) + against(Tail(r))
         IN  against(t) + sum_si_int(t)
\* sum of the pairwise intersection areas of a sequence
sum_si(s) == Num(sum_si_int(s) * Scale)

\* ----------------------------------------------------------- box universe
\* The all-zero padding sentinel.
ZeroBox == <<0, 0, 0, 0>>
\* Boxes the inputs are drawn from: the sentinel, a unit box left of and
\* above the origin (no coordinate is positive), a unit square, a 2x1 box
\* and a 2x2 square, the last three overlapping.
Boxes == {ZeroBox, <<-1, -1, 0, 0>>, <<0, 0, 1, 1>>, <<0, 0, 2, 1>>, <<0, 0, 2, 2>>}

RECURSIVE SeqsUpTo(_, _)
\* the sequences over S of length at most n
SeqsUpTo(S, n) ==
    IF n = 0 THEN {<<>>}
    ELSE LET shorter == SeqsUpTo(S, n - 1)
         IN  shorter \cup {Append(s, x) : s \in {r \in shorter : Len(r) = n - 1}, x \in S}

\* ---------------------------------------------------------- padding filter
\* (target > 0).any(-1)
keep_mask(target) ==
    [i \in 1..Len(target) |-> \E k \in 1..4 : target[i][k] > 0]

RECURSIVE masked_from(_, _, _)
masked_from(x, mask, i) ==
    IF i > Len(mask) THEN <<>>
    ELSE IF mask[i] THEN <<x[i]>> \o masked_from(x, mask, i + 1)
    ELSE masked_from(x, mask, i + 1)
\* x[mask]: the rows of x at the positions where mask is true, in order
masked_select(x, mask) == masked_from(x, mask, 1)

filtered(x, target, ignore_zero) ==
    IF ignore_zero THEN masked_select(x, keep_mask(target)) ELSE x

\* ------------------------------------------------------------- box losses
iou_loss(output, target, ignore_zero) ==
    LET o == filtered(output, target, ignore_zero)
        t == filtered(target, target, ignore_zero)
        loss == [i \in 1..Len(t) |-> Sub(One, iou(t[i], o[i]))]
    IN  Mean(loss)

distance_iou_loss(output, target, ignore_zero) ==
    LET o == filtered(output, target, ignore_zero)
        t == filtered(target, target, ignore_zero)
        loss == [i \in 1..Len(t) |->
                   Add(Sub(One, iou(t[i], o[i])),
                       Div(center_distance(t[i], o[i]), diag(mbr(t[i], o[i]))))]
    IN  Mean(loss)

\* value = (arctan(aspect(t)) - arctan(aspect(p)))^2 * 4 / pi^2
aspect_value(t, p) ==
    LET d == Sub(Arctan(aspect_ratio(t)), Arctan(aspect_ratio(p)))
    IN  Mul(Mul(d, d), Num(FourOverPiSq))

\* alpha = value / ((1 - iou) + value), complete_iou_loss
ciou_alpha(value, iou_v) == Div(value, Add(Sub(One, iou_v), value))

complete_iou_loss(output, target, ignore_zero) ==
    LET o == filtered(output, target, ignore_zero)
        t == filtered(target, target, ignore_zero)
        loss == [i \in 1..Len(t) |->
                   LET iou_v == iou(t[i], o[i])
                       value == aspect_value(t[i], o[i])
                       alpha == ciou_alpha(value, iou_v)
                   IN  Add(Add(Sub(One, iou_v),
                               Div(center_distance(t[i], o[i]), diag(mbr(t[i], o[i])))),
                           Mul(alpha, value))]
    IN  Mean(loss)

\* mutant: the 0/0 of a perfect match replaced by 0
tile_alpha_guarded(value, iou_v) ==
    IF Add(Sub(One, iou_v), value) = Zero THEN Zero
    ELSE Div(value, Add(Sub(One, iou_v), value))

\* alpha = value / ((1 - iou) + value), tile_iou_loss
tile_alpha(value, iou_v) == Div(value, Add(Sub(One, iou_v), value))

\* the per-position terms of tile_iou_loss
tile_pair_loss(o, t) ==
    [i \in 1..Len(t) |->
       LET iou_v == iou(t[i], o[i])
           value == aspect_value(t[i], o[i])
           alpha == tile_alpha(value, iou_v)
       IN  Add(Add(Sub(One, iou_v),
                   Div(center_distance(t[i], o[i]), diag(mbr(t[i], o[i])))),
               Mul(alpha, value))]

\* p_tile / t_tile: overlap and coverage gap of one sequence over its MBR
tile_score(s) ==
    LET s_mbr == mbr_all(s)
        s_dist == Abs(Sub(One, Div(SumSeq([i \in 1..Len(s) |-> area(s[i])]), area(s_mbr))))
    IN  Add(Div(sum_si(s), area(s_mbr)), s_dist)

\* mutant: the first row of each sequence taken for its bounding rectangle
tile_seq_loss_first_row(o, t) ==
    IF Len(t) = 0 THEN NaN
    ELSE Add(Sub(One, iou(o[1], t[1])), Abs(Sub(tile_score(o), tile_score(t))))

\* seq_loss = 1 - iou(p_mbr, t_mbr) + |p_tile - t_tile|
tile_seq_loss(o, t) ==
    Add(Sub(One, iou(mbr_all(o), mbr_all(t))), Abs(Sub(tile_score(o), tile_score(t))))

\* mutant: the per-position terms summed, not averaged
tile_combine_sum(loss, seq_loss) == Add(SumSeq(loss), seq_loss)

\* torch.mean(loss) + seq_loss
tile_combine(loss, seq_loss) == Add(Mean(loss), seq_loss)

tile_iou_loss(output, target, ignore_zero) ==
    LET o == filtered(output, target, ignore_zero)
        t == filtered(target, target, ignore_zero)
    IN  tile_combine(tile_pair_loss(o, t), tile_seq_loss(o, t))

BoxLossNames == {"iou_loss", "distance_iou_loss", "complete_iou_loss", "tile_iou_loss"}

\* the box loss named f
box_loss(f, output, target, ignore_zero) ==
    CASE f = "iou_loss" -> iou_loss(output, target, ignore_zero)
      [] f = "distance_iou_loss" -> distance_iou_loss(output, target, ignore_zero)
      [] f = "complete_iou_loss" -> complete_iou_loss(output, target, ignore_zero)
      [] f = "tile_iou_loss" -> tile_iou_loss(output, target, ignore_zero)

\* ---------------------------------------------------- classification loss
\* Number of classes of the class logits.
NumClasses == 3

\* log(sum(exp(row))) * Scale for a row of NumClasses logits, each 0 or 1
LogSumExp(row) ==
    LET ones == Cardinality({c \in 1..Len(row) : row[c] = 1})
    IN  CASE ones = 0 -> 1099
          [] ones = 1 -> 1551
          [] ones = 2 -> 1862
          [] ones = 3 -> 2099

\* -log_softmax(row)[class] * Scale; classes count from 0
neg_log_prob(row, class) == LogSumExp(row) - row[class + 1] * Scale

RECURSIVE SumInts(_)
SumInts(s) == IF Len(s) = 0 THEN 0 ELSE Head(s) + SumInts(Tail(s))

\* no per-class weight vector
None == <<>>

\* F.cross_entropy(output, target, ignore_index=pad_idx,
\*                 label_smoothing=smoothing, weight=weight), reduction 'mean'
cls_loss(output, target, pad_idx, smoothing, weight) ==
    LET w == IF weight = None THEN [c \in 1..NumClasses |-> 1] ELSE weight
        keep == masked_select([i \in 1..Len(target) |-> i],
                              [i \in 1..Len(target) |-> target[i] # pad_idx])
        w_sum == SumInts([j \in 1..Len(keep) |-> w[target[keep[j]] + 1]])
        nll_sum == SumInts([j \in 1..Len(keep) |->
                       w[target[keep[j]] + 1]
                         * neg_log_prob(output[keep[j]], target[keep[j]])])
        smooth_sum == SumInts([j \in 1..Len(keep) |->
                          SumInts([c \in 1..NumClasses |->
                              w[c] * neg_log_prob(output[keep[j]], c - 1)])])
        nll == Div(Num(nll_sum), Num(w_sum * Scale))
        smooth == Div(Num(smooth_sum), Num(w_sum * Scale))
    IN  Add(Mul(Num(Scale - smoothing), nll),
            Div(Mul(smooth, Num(smoothing)), Num(NumClasses * Scale)))

\* ------------------------------------------------------------ batch_mean
\* mutant: every iteration reads the first sample
batch_item_first(xs, batch) == xs[1]

\* outputs[batch], targets[batch]
batch_item(xs, batch) == xs[batch]

\* loss_func(outputs[batch], targets[batch], **kwargs)
loss_call(loss_func, outputs, targets, batch, kwargs) ==
    IF loss_func = "cls_loss"
    THEN cls_loss(batch_item(outputs, batch), batch_item(targets, batch),
                  kwargs.pad_idx, kwargs.smoothing, kwargs.weight)
    ELSE box_loss(loss_func, batch_item(outputs, batch), batch_item(targets, batch),
                  kwargs.ignore_zero)

\* range(targets.size(0))
batch_range(outputs, targets) == 1..Len(targets)

\* mutant: the per-sample scalars summed, not averaged
batch_reduce_sum(losses) == SumSeq(losses)

\* torch.mean(torch.stack([...]))
batch_reduce(losses) == Mean(losses)

\* the value batch_mean returns when no call raises
batch_mean(loss_func, outputs, targets, kwargs) ==
    batch_reduce([b \in batch_range(outputs, targets) |->
                    loss_call(loss_func, outputs, targets, b, kwargs)])

\* -------------------------------------------------------- structure_loss
\* pad_idx=pad_idx, smoothing=smoothing, weight=weight
cls_kwargs(pad, smooth, wgt) == [pad_idx |-> pad, smoothing |-> smooth, weight |-> wgt]
\* ignore_zero=ignore_zero
box_kwargs(iz) == [ignore_zero |-> iz]
\* mutant: the pair returned in the other order
structure_return_swapped(cls_loss_value, iou_loss_value) == <<iou_loss_value, cls_loss_value>>
\* return cls_loss_value, iou_loss_value
structure_return(cls_loss_value, iou_loss_value) == <<cls_loss_value, iou_loss_value>>

\* ---------------------------------------------------------- batch inputs
\* The samples a batch is drawn from, sequence length 2: class logits and
\* labels, box predictions and targets.
Samples == {
    \* finite box loss, both class predictions right
    [cls_output |-> <<<<0, 1, 0>>, <<0, 0, 1>>>>, cls_target |-> <<1, 2>>,
     box_output |-> <<<<0, 0, 1, 1>>, <<0, 0, 2, 1>>>>,
     box_target |-> <<<<0, 0, 2, 1>>, <<0, 0, 2, 2>>>>],
    \* a perfect match at a surviving position, one padded position
    [cls_output |-> <<<<0, 1, 0>>, <<1, 0, 0>>>>, cls_target |-> <<2, 0>>,
     box_output |-> <<<<0, 0, 1, 1>>, <<0, 0, 2, 2>>>>,
     box_target |-> <<<<0, 0, 1, 1>>, ZeroBox>>],
    \* every position padded
    [cls_output |-> <<<<1, 1, 0>>, <<0, 1, 1>>>>, cls_target |-> <<0, 0>>,
     box_output |-> <<<<0, 0, 2, 1>>, <<0, 0, 1, 1>>>>,
     box_target |-> <<ZeroBox, ZeroBox>>],
    \* same aspect ratio, partial overlap
    [cls_output |-> <<<<0, 0, 1>>, <<0, 1, 1>>>>, cls_target |-> <<1, 1>>,
     box_output |-> <<<<0, 0, 2, 2>>, <<0, 0, 2, 1>>>>,
     box_target |-> <<<<0, 0, 1, 1>>, <<0, 0, 2, 2>>>>],
    \* a target left of and above the origin
    [cls_output |-> <<<<1, 0, 0>>, <<0, 1, 0>>>>, cls_target |-> <<2, 1>>,
     box_output |-> <<<<0, 0, 1, 1>>, <<0, 0, 2, 1>>>>,
     box_target |-> <<<<-1, -1, 0, 0>>, <<0, 0, 2, 1>>>>]
  }

\* the tensor stacking field f of the samples xs
stack(xs, f) == [b \in 1..Len(xs) |-> xs[b][f]]
\* x without its last sample
drop_last(x) == SubSeq(x, 1, Len(x) - 1)

\* label_smoothing values tried
Smoothings == {10, 100}
\* per-class weights tried
Weights == {None, <<1, 2, 1>>}

\* ------------------------------------------------------------------ state
VARIABLES
    \* a box loss called on one sample
    output,       \* [seq_len, 4] prediction of the sample
    target,       \* [seq_len, 4] target of the sample
    func,         \* the box loss called ("none" before the call)
    removed,      \* positions the call dropped before computing
    result,       \* the value the call returned
    \* batch_mean and structure_loss
    entry,        \* the function called: "structure_loss" or "batch_mean"
    cls_output,   \* [batch_size, seq_len, dim] class logits
    cls_target,   \* [batch_size, seq_len] class labels
    box_output,   \* [batch_size, seq_len, 4] box predictions
    box_target,   \* [batch_size, seq_len, 4] box targets
    pad_idx, smoothing, weight,   \* arguments of structure_loss
    loss_func,    \* loss_func of the running batch_mean
    batch,        \* samples the running batch_mean has evaluated
    losses,       \* their scalars, in order
    calls,        \* every loss_func call made so far, in order
    cls_loss_value,   \* structure_loss's first batch mean
    ret,          \* the value returned
    \* both
    ignore_zero,  \* the ignore_zero argument
    pc            \* where the call stands

lossVars == <<output, target, func, removed, result>>
inputVars == <<entry, cls_output, cls_target, box_output, box_target,
               pad_idx, smoothing, weight, ignore_zero>>
batchVars == <<loss_func, batch, losses, calls, cls_loss_value, ret>>
vars == <<output, target, func, removed, result, entry, cls_output, cls_target,
          box_output, box_target, pad_idx, smoothing, weight, loss_func, batch,
          losses, calls, cls_loss_value, ret, ignore_zero, pc>>

\* ------------------------------------------------- one sample, one box loss
\* aligned (prediction, target) sequences of one sample
SamplePairs ==
    {p \in SeqsUpTo(Boxes, MaxLen) \X SeqsUpTo(Boxes, MaxLen) : Len(p[1]) = Len(p[2])}

NoBatch ==
    /\ entry = "none"
    /\ cls_output = <<>> /\ cls_target = <<>>
    /\ box_output = <<>> /\ box_target = <<>>
    /\ pad_idx = 0 /\ smoothing = 0 /\ weight = None
    /\ loss_func = "none" /\ batch = 0 /\ losses = <<>> /\ calls = <<>>
    /\ cls_loss_value = NaN /\ ret = NaN

InitLoss ==
    /\ \E p \in SamplePairs : output = p[1] /\ target = p[2]
    /\ ignore_zero \in BOOLEAN
    /\ func = "none"
    /\ removed = {}
    /\ result = NaN
    /\ pc = "ready"
    /\ NoBatch

\* positions the filter of a box loss drops
dropped(tgt, iz) ==
    IF iz THEN {i \in 1..Len(tgt) : ~keep_mask(tgt)[i]} ELSE {}

CallIouLoss ==
    /\ pc = "ready"
    /\ func' = "iou_loss"
    /\ removed' = dropped(target, ignore_zero)
    /\ result' = iou_loss(output, target, ignore_zero)
    /\ pc' = "returned"
    /\ UNCHANGED <<output, target, inputVars, batchVars>>

CallDistanceIouLoss ==
    /\ pc = "ready"
    /\ func' = "distance_iou_loss"
    /\ removed' = dropped(target, ignore_zero)
    /\ result' = distance_iou_loss(output, target, ignore_zero)
    /\ pc' = "returned"
    /\ UNCHANGED <<output, target, inputVars, batchVars>>

CallCompleteIouLoss ==
    /\ pc = "ready"
    /\ func' = "complete_iou_loss"
    /\ removed' = dropped(target, ignore_zero)
    /\ result' = complete_iou_loss(output, target, ignore_zero)
    /\ pc' = "returned"
    /\ UNCHANGED <<output, target, inputVars, batchVars>>

CallTileIouLoss ==
    /\ pc = "ready"
    /\ func' = "tile_iou_loss"
    /\ removed' = dropped(target, ignore_zero)
    /\ result' = tile_iou_loss(output, target, ignore_zero)
    /\ pc' = "returned"
    /\ UNCHANGED <<output, target, inputVars, batchVars>>

NextLoss ==
    \/ CallIouLoss
    \/ CallDistanceIouLoss
    \/ CallCompleteIouLoss
    \/ CallTileIouLoss

SpecLoss == InitLoss /\ [][NextLoss]_vars

\* ------------------------------------------ batch_mean and structure_loss
\* how the batch sizes of outputs and targets relate
Shapes == {"aligned", "extra_output", "missing_output"}

\* the batches passed as outputs (side "o") and targets (side "t")
passed(xs, shape, side) ==
    IF (shape = "extra_output" /\ side = "t") \/ (shape = "missing_output" /\ side = "o")
    THEN drop_last(xs) ELSE xs

InitBatch ==
    /\ \E xs \in SeqsUpTo(Samples, MaxBatch), shape \in Shapes :
          /\ shape # "aligned" => Len(xs) > 0
          /\ cls_output = stack(passed(xs, shape, "o"), "cls_output")
          /\ box_output = stack(passed(xs, shape, "o"), "box_output")
          /\ cls_target = stack(passed(xs, shape, "t"), "cls_target")
          /\ box_target = stack(passed(xs, shape, "t"), "box_target")
    /\ ignore_zero \in BOOLEAN
    /\ \/ /\ entry = "structure_loss"
          /\ loss_func = "none"
          /\ pad_idx \in {0, 1}
          /\ smoothing \in Smoothings
          /\ weight \in Weights
       \/ /\ entry = "batch_mean"
          /\ loss_func \in BoxLossNames
          /\ pad_idx = 0 /\ smoothing = 0 /\ weight = None
    /\ batch = 0 /\ losses = <<>> /\ calls = <<>>
    /\ cls_loss_value = NaN /\ ret = NaN
    /\ pc = "ready"
    /\ output = <<>> /\ target = <<>> /\ func = "none" /\ removed = {} /\ result = NaN

\* the arguments of the running batch_mean
cur_outputs == IF loss_func = "cls_loss" THEN cls_output ELSE box_output
cur_targets == IF loss_func = "cls_loss" THEN cls_target ELSE box_target
cur_kwargs ==
    IF loss_func = "cls_loss" THEN cls_kwargs(pad_idx, smoothing, weight)
    ELSE box_kwargs(ignore_zero)

\* structure_loss unpacks its arguments and calls batch_mean(cls_loss, ...)
StructureLossBegin ==
    /\ pc = "ready" /\ entry = "structure_loss"
    /\ loss_func' = "cls_loss"
    /\ pc' = "loop"
    /\ UNCHANGED <<lossVars, inputVars, batch, losses, calls, cls_loss_value, ret>>

\* batch_mean(loss_func, box_output, box_target, ignore_zero=...) called directly
BatchMeanBegin ==
    /\ pc = "ready" /\ entry = "batch_mean"
    /\ pc' = "loop"
    /\ UNCHANGED <<lossVars, inputVars, batchVars>>

\* one iteration of the comprehension: loss_func(outputs[batch], targets[batch])
BatchMeanIter ==
    /\ pc = "loop"
    /\ batch + 1 \in batch_range(cur_outputs, cur_targets)
    /\ batch + 1 <= Len(cur_outputs)
    /\ losses' = Append(losses,
                    loss_call(loss_func, cur_outputs, cur_targets, batch + 1, cur_kwargs))
    /\ calls' = Append(calls, [func |-> loss_func, batch |-> batch + 1,
                               output |-> batch_item(cur_outputs, batch + 1),
                               target |-> batch_item(cur_targets, batch + 1),
                               kwargs |-> cur_kwargs])
    /\ batch' = batch + 1
    /\ UNCHANGED <<lossVars, inputVars, loss_func, cls_loss_value, ret, pc>>

\* outputs[batch] past the end of outputs: IndexError
BatchMeanIndexError ==
    /\ pc = "loop"
    /\ batch + 1 \in batch_range(cur_outputs, cur_targets)
    /\ batch + 1 > Len(cur_outputs)
    /\ pc' = "raised"
    /\ UNCHANGED <<lossVars, inputVars, batchVars>>

\* torch.stack of an empty list: RuntimeError
BatchMeanStackError ==
    /\ pc = "loop"
    /\ batch + 1 \notin batch_range(cur_outputs, cur_targets)
    /\ losses = <<>>
    /\ pc' = "raised"
    /\ UNCHANGED <<lossVars, inputVars, batchVars>>

\* batch_mean(cls_loss, ...) returns into structure_loss, which calls
\* batch_mean(tile_iou_loss, box_output, box_target, ignore_zero=ignore_zero)
StructureLossClsDone ==
    /\ pc = "loop" /\ entry = "structure_loss" /\ loss_func = "cls_loss"
    /\ batch + 1 \notin batch_range(cur_outputs, cur_targets)
    /\ losses # <<>>
    /\ cls_loss_value' = batch_reduce(losses)
    /\ loss_func' = "tile_iou_loss"
    /\ batch' = 0
    /\ losses' = <<>>
    /\ UNCHANGED <<lossVars, inputVars, calls, ret, pc>>

\* batch_mean(tile_iou_loss, ...) returns and structure_loss returns the pair
StructureLossReturn ==
    /\ pc = "loop" /\ entry = "structure_loss" /\ loss_func = "tile_iou_loss"
    /\ batch + 1 \notin batch_range(cur_outputs, cur_targets)
    /\ losses # <<>>
    /\ ret' = structure_return(cls_loss_value, batch_reduce(losses))
    /\ pc' = "returned"
    /\ UNCHANGED <<lossVars, inputVars, loss_func, batch, losses, calls, cls_loss_value>>

\* batch_mean called directly returns the mean
BatchMeanReturn ==
    /\ pc = "loop" /\ entry = "batch_mean"
    /\ batch + 1 \notin batch_range(cur_outputs, cur_targets)
    /\ losses # <<>>
    /\ ret' = batch_reduce(losses)
    /\ pc' = "returned"
    /\ UNCHANGED <<lossVars, inputVars, loss_func, batch, losses, calls, cls_loss_value>>

NextBatch ==
    \/ StructureLossBegin
    \/ BatchMeanBegin
    \/ BatchMeanIter
    \/ BatchMeanIndexError
    \/ BatchMeanStackError
    \/ StructureLossClsDone
    \/ StructureLossReturn
    \/ BatchMeanReturn

SpecBatch == InitBatch /\ [][NextBatch]_vars

\* ====================================================== claims, SpecLoss
Returned == pc = "returned"

\* the all-zero-target positions deleted from x, by the claim's own rule
DeleteZeroRows(x, tgt) ==
    masked_select(x, [i \in 1..Len(tgt) |-> tgt[i] # ZeroBox])

\* C1: with ignore_zero=True the positions removed before the loss is
\* computed are exactly the positions whose target row is the all-zero
\* sentinel; a target row with any non-zero coordinate survives.
C1_RemovedExactlyZeroRows ==
    (Returned /\ ignore_zero) =>
        removed = {i \in 1..Len(target) : target[i] = ZeroBox}

\* C2: with ignore_zero=True every box loss returns what the same loss
\* returns with ignore_zero=False on the subsequences left after deleting
\* the all-zero-target positions from prediction and target.
C2_EqualsLossOnFilteredSubsequence ==
    (Returned /\ ignore_zero) =>
        result = box_loss(func, DeleteZeroRows(output, target),
                          DeleteZeroRows(target, target), FALSE)

\* C3: when every target row is padding, so that filtering leaves an empty
\* sequence, the box loss returns a defined value, not NaN.
C3_AllPaddingIsDefined ==
    (Returned /\ ignore_zero /\ Len(target) > 0
       /\ \A i \in 1..Len(target) : target[i] = ZeroBox) =>
        ~result.nan

Perms(n) == {p \in [1..n -> 1..n] : \A i, j \in 1..n : p[i] = p[j] => i = j}
permute(s, p) == [i \in 1..Len(s) |-> s[p[i]]]

\* C8: tile_iou_loss returns the same value when prediction and target are
\* permuted by the same permutation of the positions, for both values of
\* ignore_zero.
C8_TilePermutationInvariant ==
    (Returned /\ func = "tile_iou_loss") =>
        \A p \in Perms(Len(target)) :
            tile_iou_loss(permute(output, p), permute(target, p), ignore_zero) = result

\* a tile_iou_loss call returned a number for a sample of two surviving
\* positions that differ in prediction and in target
C8_Witness ==
    /\ Returned /\ func = "tile_iou_loss" /\ ~result.nan
    /\ Len(target) = 2 /\ removed = {}
    /\ target[1] # target[2] /\ output[1] # output[2]
    /\ tile_pair_loss(output, target)[1] # tile_pair_loss(output, target)[2]

\* tile_score_S = sum_si(S)/area(mbr_S) + |1 - sum of area(box)/area(mbr_S)|
C9_TileScore(S) ==
    Add(Div(sum_si(S), area(mbr_all(S))),
        Abs(Sub(One, Div(SumSeq([i \in 1..Len(S) |-> area(S[i])]), area(mbr_all(S))))))

\* (1 - iou(mbr_pred, mbr_target)) + |tile_score_pred - tile_score_target|
C9_SequenceTerm(o, t) ==
    Add(Sub(One, iou(mbr_all(o), mbr_all(t))), Abs(Sub(C9_TileScore(o), C9_TileScore(t))))

\* C9: tile_iou_loss equals complete_iou_loss plus the sequence-level term,
\* computed on the filtered sequences and added once per sample.
C9_TileIsCompletePlusSequenceTerm ==
    (Returned /\ func = "tile_iou_loss") =>
        result = Add(complete_iou_loss(output, target, ignore_zero),
                     C9_SequenceTerm(filtered(output, target, ignore_zero),
                                     filtered(target, target, ignore_zero)))

\* a tile_iou_loss call returned a number for two surviving positions with a
\* non-zero sequence-level term and non-zero pairwise terms
C9_Witness ==
    /\ Returned /\ func = "tile_iou_loss" /\ ~result.nan
    /\ Len(target) = 2 /\ removed = {}
    /\ C9_SequenceTerm(output, target).v > 0
    /\ complete_iou_loss(output, target, ignore_zero).v > 0

\* ===================================================== claims, SpecBatch
\* the box tensors passed have the same number of samples
AlignedBatch == Len(box_output) = Len(box_target) /\ Len(cls_output) = Len(cls_target)

\* the box loss whose batch mean is returned, and that batch mean
BoxLossFunc == IF entry = "structure_loss" THEN "tile_iou_loss" ELSE loss_func
BoxRet == IF entry = "structure_loss" THEN ret[2] ELSE ret

\* C4: when outputs and targets differ in their number of samples the call
\* fails before any loss value is computed; no value is returned and no
\* sample is skipped.
C4_MismatchNeverReturns ==
    Len(box_output) # Len(box_target) => pc # "returned"

\* sum / n, NaN when a term is
C5_ArithmeticMean(xs) == Div(SumSeq(xs), Num(Len(xs) * Scale))

\* the calls one batch_mean makes: one per sample index, same kwargs
C5_Calls(fn, outs, tgts, kw) ==
    [b \in 1..Len(tgts) |->
       [func |-> fn, batch |-> b, output |-> outs[b], target |-> tgts[b], kwargs |-> kw]]

C5_BoxScalars ==
    [b \in 1..Len(box_target) |->
       box_loss(BoxLossFunc, box_output[b], box_target[b], ignore_zero)]
C5_ClsScalars ==
    [b \in 1..Len(cls_target) |->
       cls_loss(cls_output[b], cls_target[b], pad_idx, smoothing, weight)]

\* C5: batch_mean calls loss_fn exactly once per sample index b, with
\* (outputs[b], targets[b]) and the same kwargs, and returns the unweighted
\* arithmetic mean of the per-sample scalars; for a batch of one sample that
\* is the sample's loss itself.
C5_BatchMeanIsMeanOfOneCallPerSample ==
    (pc = "returned" /\ AlignedBatch) =>
        LET box_calls == C5_Calls(BoxLossFunc, box_output, box_target,
                                  [ignore_zero |-> ignore_zero])
            cls_calls == C5_Calls("cls_loss", cls_output, cls_target,
                                  [pad_idx |-> pad_idx, smoothing |-> smoothing,
                                   weight |-> weight])
        IN  /\ BoxRet = C5_ArithmeticMean(C5_BoxScalars)
            /\ Len(box_target) = 1 => BoxRet = C5_BoxScalars[1]
            /\ entry = "batch_mean" => calls = box_calls
            /\ entry = "structure_loss" =>
                 /\ calls = cls_calls \o box_calls
                 /\ ret[1] = C5_ArithmeticMean(C5_ClsScalars)
                 /\ Len(cls_target) = 1 => ret[1] = C5_ClsScalars[1]

\* batch_mean returned the mean of two different per-sample scalars
C5_Witness ==
    /\ pc = "returned" /\ AlignedBatch /\ entry = "batch_mean"
    /\ Len(box_target) = 2 /\ Len(calls) = 2
    /\ ~ret.nan /\ losses[1] # losses[2]
    /\ ret.v * 2 = losses[1].v + losses[2].v

\* C6: the scalar of sample b depends only on outputs[b] and targets[b]
\* (replacing any other sample leaves it unchanged), and the batch result is
\* unchanged when outputs and targets are reordered by the same permutation.
C6_SamplesIndependentAndReorderable ==
    (pc = "returned" /\ AlignedBatch) =>
        /\ \A b \in 1..Len(box_target) : \A c \in 1..Len(box_target) : \A x \in Samples :
              c # b =>
                 loss_call(loss_func, [box_output EXCEPT ![c] = x.box_output],
                           [box_target EXCEPT ![c] = x.box_target], b,
                           [ignore_zero |-> ignore_zero]) = losses[b]
        /\ \A p \in Perms(Len(box_target)) :
              batch_mean(loss_func, permute(box_output, p), permute(box_target, p),
                         [ignore_zero |-> ignore_zero]) = BoxRet

\* tile_iou_loss was averaged over two different samples with different,
\* defined losses
C6_Witness ==
    /\ pc = "returned" /\ AlignedBatch /\ loss_func = "tile_iou_loss"
    /\ Len(box_target) = 2
    /\ box_target[1] # box_target[2] /\ box_output[1] # box_output[2]
    /\ ~losses[1].nan /\ ~losses[2].nan /\ losses[1] # losses[2]

\* C7: structure_loss returns the pair (classification_loss, box_loss), in
\* that order: the batch mean of cls_loss over the class logits and labels
\* with the caller's pad_idx, smoothing and weight, and the batch mean of
\* tile_iou_loss over the box predictions and targets with the caller's
\* ignore_zero.
C7_StructureLossReturnsPair ==
    (pc = "returned" /\ entry = "structure_loss") =>
        /\ Len(ret) = 2
        /\ ret[1] = batch_mean("cls_loss", cls_output, cls_target,
                               [pad_idx |-> pad_idx, smoothing |-> smoothing,
                                weight |-> weight])
        /\ ret[2] = batch_mean("tile_iou_loss", box_output, box_target,
                               [ignore_zero |-> ignore_zero])

\* structure_loss returned two different numbers for non-default arguments
C7_Witness ==
    /\ pc = "returned" /\ entry = "structure_loss"
    /\ ~ret[1].nan /\ ~ret[2].nan /\ ret[1] # ret[2]
    /\ ~ignore_zero /\ pad_idx = 1 /\ weight # None
    /\ Len(box_target) = 2

\* a surviving position of sample b where prediction and target overlap
\* perfectly with the same aspect ratio
C10_PerfectMatch(b) ==
    LET o == filtered(box_output[b], box_target[b], ignore_zero)
        t == filtered(box_target[b], box_target[b], ignore_zero)
    IN  \E i \in 1..Len(t) : iou(t[i], o[i]) = One /\ aspect_value(t[i], o[i]) = Zero

====
